---------------------------- MODULE Spec2Model ----------------------------
(***************************************************************************)
(* Workflow extractor (src/app/api/extract/route.ts): the POST handler     *)
(* parses an uploaded JSON document and projects it into three datasets:   *)
(* module records, condition rows with their header list, and a glossary   *)
(* of the keys of the SDK response.                                        *)
(*                                                                         *)
(* Text is a sequence of one-character strings.  A JSON/JavaScript value   *)
(* is a record [k, s, n, b, e]: k is the kind, s the text of a string, n   *)
(* the number, b the boolean and e the own properties of an object or an   *)
(* array, in own-key order, each [key |-> text, val |-> value].            *)
(***************************************************************************)
EXTENDS Integers, Sequences, FiniteSets, TLC

VARIABLES
    file,              \* the upload: no file, text that is not JSON, or a document
    doc,               \* the uploaded document, members in source order
    locale,            \* the locale the runtime collates with
    pc,                \* position in the POST handler
    data,              \* JSON.parse result
    modules,           \* const modules: any[]
    conditions,        \* let conditions: any[]
    conditionHeaders,  \* let conditionHeaders: string[]
    sdkMap,            \* const sdkMap = new Map<string, string>()
    sdkCsvRows,        \* the rows generateSdkCsv hands to stringify
    modulesCsv,        \* const modulesCsv
    conditionsCsv,     \* const conditionsCsv
    sdkCsv,            \* const sdkCsv
    response,          \* what the handler returns
    moduleCalls,       \* the nodes extractModules was called on, in call order
    sdkCalls,          \* the nodes collectSdkKeys was called on, in call order
    exported,          \* the text exportData puts in the Blob it downloads
    page,              \* the page component's state: files, loading, error, data
    requests,          \* the calls of processFiles or handleSubmit awaiting their fetch
    calls,             \* the locals of the POST calls a server process runs together
    keyText,           \* an argument of humanizeKey
    humanized          \* humanizeKey(keyText) and humanizeKey of that

\* the locals of one POST call and the runtime it runs in
handlerVars == <<file, doc, locale, pc, data, modules, conditions, conditionHeaders,
                 sdkMap, sdkCsvRows, modulesCsv, conditionsCsv, sdkCsv, response,
                 moduleCalls, sdkCalls>>

\* the calls the two recursive extractors make, each node named by its path
callLog == <<moduleCalls, sdkCalls>>

\* what generateCsv and generateSdkCsv compute
csvOut == <<sdkCsvRows, modulesCsv, conditionsCsv, sdkCsv>>

\* the browser's side
pageVars == <<exported, page, requests>>

\* everything a single POST call leaves alone
beyondHandler == <<pageVars, calls, keyText, humanized>>

vars == <<handlerVars, beyondHandler>>

-----------------------------------------------------------------------------
(* Characters and text *)

LowerLetters == <<"a","b","c","d","e","f","g","h","i","j","k","l","m",
                  "n","o","p","q","r","s","t","u","v","w","x","y","z">>
UpperLetters == <<"A","B","C","D","E","F","G","H","I","J","K","L","M",
                  "N","O","P","Q","R","S","T","U","V","W","X","Y","Z">>
DigitChars == <<"0","1","2","3","4","5","6","7","8","9">>

IndexOf(seq, c) ==
    IF \E i \in 1..Len(seq) : seq[i] = c
    THEN CHOOSE i \in 1..Len(seq) : seq[i] = c
    ELSE 0

IsLower(c) == IndexOf(LowerLetters, c) > 0
IsUpper(c) == IndexOf(UpperLetters, c) > 0
IsDigit(c) == IndexOf(DigitChars, c) > 0
ToUpperChar(c) == IF IsLower(c) THEN UpperLetters[IndexOf(LowerLetters, c)] ELSE c
ToLowerChar(c) == IF IsUpper(c) THEN LowerLetters[IndexOf(UpperLetters, c)] ELSE c

StartsWith(s, p) == Len(s) >= Len(p) /\ SubSeq(s, 1, Len(p)) = p

RECURSIVE NatToText(_)
NatToText(n) ==
    IF n < 10 THEN <<DigitChars[n + 1]>>
    ELSE NatToText(n \div 10) \o <<DigitChars[(n % 10) + 1]>>

\* String(n) for an integer n
NumToText(n) == IF n < 0 THEN <<"-">> \o NatToText(0 - n) ELSE NatToText(n)

RECURSIVE TextToNat(_)
TextToNat(t) ==
    IF Len(t) = 0 THEN 0
    ELSE 10 * TextToNat(SubSeq(t, 1, Len(t) - 1)) + (IndexOf(DigitChars, t[Len(t)]) - 1)

\* a canonical array index: the keys an object lists first, in numeric order
IsArrayIndex(key) ==
    /\ Len(key) > 0
    /\ \A i \in 1..Len(key) : IsDigit(key[i])
    /\ (Len(key) > 1 => key[1] # "0")

-----------------------------------------------------------------------------
(* Values *)

Str(t) == [k |-> "string", s |-> t, n |-> 0, b |-> FALSE, e |-> <<>>]
Num(i) == [k |-> "number", s |-> <<>>, n |-> i, b |-> FALSE, e |-> <<>>]
Bool(x) == [k |-> "boolean", s |-> <<>>, n |-> 0, b |-> x, e |-> <<>>]
Null == [k |-> "null", s |-> <<>>, n |-> 0, b |-> FALSE, e |-> <<>>]
Undefined == [k |-> "undefined", s |-> <<>>, n |-> 0, b |-> FALSE, e |-> <<>>]
Obj(entries) == [k |-> "object", s |-> <<>>, n |-> 0, b |-> FALSE, e |-> entries]
P(key, val) == [key |-> key, val |-> val]
Arr(items) ==
    [k |-> "array", s |-> <<>>, n |-> 0, b |-> FALSE,
     e |-> [i \in 1..Len(items) |-> P(NatToText(i - 1), items[i])]]

\* typeof v === 'object'
TypeofObject(v) == v.k \in {"object", "array", "null"}
\* typeof v === 'object' && v !== null
IsNonNullObject(v) == TypeofObject(v) /\ v.k # "null"
\* typeof v === 'string'
TypeofString(v) == v.k = "string"

\* ToBoolean(v), as the || operator applies it
Truthy(v) ==
    CASE v.k = "string" -> Len(v.s) > 0
      [] v.k = "number" -> v.n # 0
      [] v.k = "boolean" -> v.b
      [] v.k \in {"object", "array"} -> TRUE
      [] OTHER -> FALSE

HasKey(entries, key) == \E i \in 1..Len(entries) : entries[i].key = key
KeyIndex(entries, key) == CHOOSE i \in 1..Len(entries) : entries[i].key = key

\* key in obj
In(key, obj) == HasKey(obj.e, key)

\* obj[key]: the own property, else undefined
Get(obj, key) ==
    IF HasKey(obj.e, key) THEN obj.e[KeyIndex(obj.e, key)].val ELSE Undefined

InsertAt(seq, i, x) == SubSeq(seq, 1, i - 1) \o <<x>> \o SubSeq(seq, i, Len(seq))

\* obj[key] = val on an ordinary object: an existing property keeps its place,
\* a new array-index key goes among the index keys in ascending numeric order,
\* any other new key goes last
SetProp(entries, key, val) ==
    IF HasKey(entries, key)
    THEN [entries EXCEPT ![KeyIndex(entries, key)].val = val]
    ELSE IF IsArrayIndex(key)
    THEN LET before == {i \in 1..Len(entries) :
                           /\ IsArrayIndex(entries[i].key)
                           /\ TextToNat(entries[i].key) < TextToNat(key)}
         IN  InsertAt(entries, Cardinality(before) + 1, P(key, val))
    ELSE Append(entries, P(key, val))

RECURSIVE SetAll(_, _)
SetAll(entries, more) ==
    IF Len(more) = 0 THEN entries
    ELSE SetAll(SetProp(entries, more[1].key, more[1].val), Tail(more))

\* JSON.parse of a well-formed document: object members are defined in source
\* order, array elements in index order
RECURSIVE JSONParse(_)
JSONParse(src) ==
    IF src.k \in {"object", "array"}
    THEN LET parsed == [i \in 1..Len(src.e) |->
                           P(src.e[i].key, JSONParse(src.e[i].val))]
         IN  [src EXCEPT !.e = IF src.k = "object" THEN SetAll(<<>>, parsed) ELSE parsed]
    ELSE src

\* Object.entries(v) for a value that is not null or undefined: own enumerable
\* properties in own-key order; a string primitive lists its characters
ObjectEntries(v) ==
    CASE v.k \in {"object", "array"} -> v.e
      [] v.k = "string" -> [i \in 1..Len(v.s) |-> P(NatToText(i - 1), Str(<<v.s[i]>>))]
      [] OTHER -> <<>>

\* Object.entries/Object.values throw a TypeError on null and undefined
ObjectEntriesThrows(v) == v.k \in {"null", "undefined"}

-----------------------------------------------------------------------------
(* Utilities *)

K_type == <<"t","y","p","e">>
K_subType == <<"s","u","b","T","y","p","e">>
K_id == <<"i","d">>
K_nextStep == <<"n","e","x","t","S","t","e","p">>
K_name == <<"n","a","m","e">>
K_version == <<"v","e","r","s","i","o","n">>
K_stepId == <<"s","t","e","p","I","d">>
K_conditions == <<"c","o","n","d","i","t","i","o","n","s">>
K_conditionId == <<"c","o","n","d","i","t","i","o","n","I","d">>
K_ifTrueConfigs == <<"i","f","T","r","u","e","C","o","n","f","i","g","s">>
K_ifFalseConfigs == <<"i","f","F","a","l","s","e","C","o","n","f","i","g","s">>
K_sdkResponse == <<"s","d","k","R","e","s","p","o","n","s","e">>
K_sdkResponses == <<"s","d","k","R","e","s","p","o","n","s","e","s">>
MODULE_FIELDS == <<K_type, K_subType, K_id, K_nextStep, K_name, K_version, K_stepId>>

ModulePrefix == <<"m","o","d","u","l","e","_">>
ConditionPrefix == <<"c","o","n","d","i","t","i","o","n","_">>

\* the escapes JSON.stringify applies inside a string literal
RECURSIVE QuoteChars(_)
QuoteChars(t) ==
    IF Len(t) = 0 THEN <<>>
    ELSE (IF t[1] \in {"\"", "\\"} THEN <<"\\", t[1]>>
          ELSE IF t[1] = "\n" THEN <<"\\", "n">>
          ELSE <<t[1]>>) \o QuoteChars(Tail(t))

Quote(t) == <<"\"">> \o QuoteChars(t) \o <<"\"">>

RECURSIVE JoinComma(_)
JoinComma(parts) ==
    IF Len(parts) = 0 THEN <<>>
    ELSE IF Len(parts) = 1 THEN parts[1]
    ELSE parts[1] \o <<",">> \o JoinComma(Tail(parts))

\* JSON.stringify(val) without indentation
RECURSIVE JSONStringify(_)
JSONStringify(val) ==
    CASE val.k = "string" -> Quote(val.s)
      [] val.k = "number" -> NumToText(val.n)
      [] val.k = "boolean" -> IF val.b THEN <<"t","r","u","e">> ELSE <<"f","a","l","s","e">>
      [] val.k = "array" ->
           <<"[">> \o JoinComma([i \in 1..Len(val.e) |-> JSONStringify(val.e[i].val)]) \o <<"]">>
      [] val.k = "object" ->
           <<"{">> \o JoinComma([i \in 1..Len(val.e) |->
                        Quote(val.e[i].key) \o <<":">> \o JSONStringify(val.e[i].val)])
                   \o <<"}">>
      [] OTHER -> <<"n","u","l","l">>

\* String(val)
StringOf(val) ==
    CASE val.k = "string" -> val.s
      [] val.k = "number" -> NumToText(val.n)
      [] val.k = "boolean" -> IF val.b THEN <<"t","r","u","e">> ELSE <<"f","a","l","s","e">>
      [] val.k = "null" -> <<"n","u","l","l">>
      [] val.k = "undefined" -> <<"u","n","d","e","f","i","n","e","d">>
      [] OTHER -> <<"[","o","b","j","e","c","t"," ","O","b","j","e","c","t","]">>

\* flatten without the test for objects: String(val) for every value
flatten_StringOnly(val) == StringOf(val)

\* flatten(val)
flatten(val) ==
    IF TypeofObject(val) /\ val.k # "null" THEN JSONStringify(val) ELSE StringOf(val)

\* a pass that splits before every capital that follows a letter, capitals
\* included
RECURSIVE SplitCamel_EveryCapital(_)
SplitCamel_EveryCapital(key) ==
    IF Len(key) = 0 THEN <<>>
    ELSE IF Len(key) >= 2 /\ (IsLower(key[1]) \/ IsUpper(key[1])) /\ IsUpper(key[2])
    THEN <<key[1], " ">> \o SplitCamel_EveryCapital(Tail(key))
    ELSE <<key[1]>> \o SplitCamel_EveryCapital(Tail(key))

\* key.replace(/([a-z])([A-Z])/g, '$1 $2'): one left-to-right pass, a match
\* consumes both characters
RECURSIVE SplitCamel(_)
SplitCamel(key) ==
    IF Len(key) = 0 THEN <<>>
    ELSE IF Len(key) >= 2 /\ IsLower(key[1]) /\ IsUpper(key[2])
    THEN <<key[1], " ", key[2]>> \o SplitCamel(SubSeq(key, 3, Len(key)))
    ELSE <<key[1]>> \o SplitCamel(Tail(key))

\* key.replace(/_/g, ' ')
UnderscoresToSpaces(key) == [i \in 1..Len(key) |-> IF key[i] = "_" THEN " " ELSE key[i]]

\* key.charAt(0).toUpperCase() + key.slice(1)
UpperFirst(key) == IF Len(key) = 0 THEN <<>> ELSE <<ToUpperChar(key[1])>> \o Tail(key)

humanizeKey(key) == UpperFirst(UnderscoresToSpaces(SplitCamel(key)))

-----------------------------------------------------------------------------
(* Module extraction *)

\* v || ''
OrEmpty(v) == IF Truthy(v) THEN v ELSE Str(<<>>)

\* the condition of the if statement that guards modules.push
ModuleMatch(obj) ==
    /\ TypeofString(Get(obj, K_id))
    /\ StartsWith(Get(obj, K_id).s, ModulePrefix)
    /\ TypeofString(Get(obj, K_type))
    /\ In(K_name, obj)
    /\ In(K_stepId, obj)

\* the object literal pushed onto modules
ModuleRecord(obj) ==
    [type     |-> OrEmpty(Get(obj, K_type)),
     subType  |-> OrEmpty(Get(obj, K_subType)),
     id       |-> OrEmpty(Get(obj, K_id)),
     nextStep |-> OrEmpty(Get(obj, K_nextStep)),
     name     |-> OrEmpty(Get(obj, K_name)),
     version  |-> OrEmpty(Get(obj, K_version)),
     stepId   |-> OrEmpty(Get(obj, K_stepId))]

\* Object.values(obj) of a non-null object or array
ObjectValues(obj) == [i \in 1..Len(obj.e) |-> obj.e[i].val]

\* extractModules(obj, modules): the modules array after the call.  An array is
\* typeof 'object', so it takes the first branch; the Array.isArray branch is
\* kept as the code has it
RECURSIVE extractModules(_, _)
RECURSIVE extractModulesEach(_, _)
\* extractModules returning after a match instead of descending into the node
extractModules_NoNested(obj, mods) ==
    IF TypeofObject(obj) /\ obj.k # "null"
    THEN IF ModuleMatch(obj)
         THEN Append(mods, ModuleRecord(obj))
         ELSE extractModulesEach(ObjectValues(obj), mods)
    ELSE mods

extractModules(obj, mods) ==
    IF TypeofObject(obj) /\ obj.k # "null"
    THEN extractModulesEach(ObjectValues(obj),
                            IF ModuleMatch(obj) THEN Append(mods, ModuleRecord(obj)) ELSE mods)
    ELSE IF obj.k = "array"
    THEN extractModulesEach(ObjectValues(obj), mods)
    ELSE mods

\* the for loops over the values: one recursive call per value, in order
extractModulesEach(values, mods) ==
    IF Len(values) = 0 THEN mods
    ELSE extractModulesEach(Tail(values), extractModules(values[1], mods))

-----------------------------------------------------------------------------
(* Conditions extraction *)

SeqHas(seq, x) == \E i \in 1..Len(seq) : seq[i] = x

\* a list push in place of Set.prototype.add
SetAdd_Push(set, x) == Append(set, x)

\* Set.prototype.add: insertion order, no duplicates
SetAdd(set, x) == IF SeqHas(set, x) THEN set ELSE Append(set, x)

Includes(s, p) == \E i \in 1..(Len(s) - Len(p) + 1) : SubSeq(s, i, i + Len(p) - 1) = p

\* conditionId.includes('condition_') in place of startsWith
IsConditionKey_Includes(conditionId) == Includes(conditionId, ConditionPrefix)

\* conditionId.startsWith('condition_')
IsConditionKey(conditionId) == StartsWith(conditionId, ConditionPrefix)

IsBranchKey(key) == key = K_ifTrueConfigs \/ key = K_ifFalseConfigs

\* the loop over Object.entries(value) of a branch config: acc is [row, headers]
RECURSIVE ConfigLoop(_, _, _)
ConfigLoop(acc, key, nested) ==
    IF Len(nested) = 0 THEN acc
    ELSE LET columnName == key \o <<"_">> \o nested[1].key
         IN  ConfigLoop([row     |-> SetProp(acc.row, columnName, Str(flatten(nested[1].val))),
                         headers |-> SetAdd(acc.headers, columnName)],
                        key, Tail(nested))

\* the loop over Object.entries(conditionObj)
RECURSIVE RowLoop(_, _)
RowLoop(acc, entries) ==
    IF Len(entries) = 0 THEN acc
    ELSE LET key == entries[1].key
             value == entries[1].val
         IN  RowLoop(IF IsBranchKey(key) /\ TypeofObject(value) /\ value.k # "null"
                     THEN ConfigLoop(acc, key, ObjectEntries(value))
                     ELSE [row     |-> SetProp(acc.row, key, Str(flatten(value))),
                           headers |-> SetAdd(acc.headers, key)],
                     Tail(entries))

\* the loop over Object.entries(conditionsBlock): st is [rows, headers, threw]
RECURSIVE ConditionLoop(_, _)
ConditionLoop(st, entries) ==
    IF Len(entries) = 0 \/ st.threw THEN st
    ELSE LET conditionId == entries[1].key
             conditionObj == entries[1].val
         IN  IF ~IsConditionKey(conditionId)
             THEN ConditionLoop(st, Tail(entries))
             ELSE IF ObjectEntriesThrows(conditionObj)
             THEN [st EXCEPT !.threw = TRUE]
             ELSE LET acc == RowLoop([row     |-> <<P(K_conditionId, Str(conditionId))>>,
                                      headers |-> st.headers],
                                     ObjectEntries(conditionObj))
                  IN  ConditionLoop([rows    |-> Append(st.rows, acc.row),
                                     headers |-> acc.headers,
                                     threw   |-> FALSE],
                                    Tail(entries))

\* extractConditions(conditionsBlock): [rows, headers], or threw when a call of
\* Object.entries raised a TypeError
extractConditions(conditionsBlock) ==
    IF ObjectEntriesThrows(conditionsBlock)
    THEN [rows |-> <<>>, headers |-> <<>>, threw |-> TRUE]
    ELSE ConditionLoop([rows |-> <<>>, headers |-> <<>>, threw |-> FALSE],
                       ObjectEntries(conditionsBlock))

-----------------------------------------------------------------------------
(* SDK response extraction *)

\* Map.prototype.set: a present key keeps its place, a new key goes last
MapSet(map, key, val) ==
    IF HasKey(map, key)
    THEN [map EXCEPT ![KeyIndex(map, key)].val = val]
    ELSE Append(map, P(key, val))

\* collectSdkKeys(obj, collected): the map after the call
RECURSIVE collectSdkKeys(_, _)
RECURSIVE collectSdkKeysEach(_, _)
collectSdkKeys(obj, collected) ==
    IF TypeofObject(obj) /\ obj.k # "null"
    THEN collectSdkKeysEach(ObjectEntries(obj), collected)
    ELSE collected

collectSdkKeysEach(entries, collected) ==
    IF Len(entries) = 0 THEN collected
    ELSE LET kk == entries[1].key
             v == entries[1].val
         IN  collectSdkKeysEach(Tail(entries),
                                IF TypeofObject(v) /\ v.k # "null"
                                THEN collectSdkKeys(v, collected)
                                ELSE MapSet(collected, kk, humanizeKey(kk)))

-----------------------------------------------------------------------------
(* Sorting the glossary: a.localeCompare(b) *)

\* primary order of the collation: punctuation, digits, then letters with both
\* cases of a letter at the same primary weight
CollationOrder ==
    <<" ", "_", "-", ",", ":", "\"", "[", "]", "{", "}", "\\">> \o DigitChars \o LowerLetters

PrimaryWeight(c) == IndexOf(CollationOrder, ToLowerChar(c))

RECURSIVE ComparePrimary(_, _)
ComparePrimary(a, b) ==
    IF Len(a) = 0 /\ Len(b) = 0 THEN 0
    ELSE IF Len(a) = 0 THEN 0 - 1
    ELSE IF Len(b) = 0 THEN 1
    ELSE IF PrimaryWeight(a[1]) < PrimaryWeight(b[1]) THEN 0 - 1
    ELSE IF PrimaryWeight(a[1]) > PrimaryWeight(b[1]) THEN 1
    ELSE ComparePrimary(Tail(a), Tail(b))

\* the case level, reached when the primary weights are all equal: lower case
\* first, except in a locale that tailors upper case first
RECURSIVE CompareCase(_, _, _)
CompareCase(a, b, loc) ==
    IF Len(a) = 0 \/ Len(b) = 0 THEN 0
    ELSE IF a[1] = b[1] THEN CompareCase(Tail(a), Tail(b), loc)
    ELSE IF IsLower(a[1]) = (loc # "da") THEN 0 - 1 ELSE 1

localeCompare(a, b, loc) ==
    IF ComparePrimary(a, b) # 0 THEN ComparePrimary(a, b) ELSE CompareCase(a, b, loc)

\* Array.prototype.sort(([a], [b]) => a.localeCompare(b)) on map entries: a
\* stable sort
RECURSIVE SortInsert(_, _, _)
SortInsert(sorted, x, loc) ==
    IF Len(sorted) = 0 THEN <<x>>
    ELSE IF localeCompare(sorted[Len(sorted)].key, x.key, loc) <= 0 THEN Append(sorted, x)
    ELSE Append(SortInsert(SubSeq(sorted, 1, Len(sorted) - 1), x, loc), sorted[Len(sorted)])

RECURSIVE SortEntries(_, _)
SortEntries(entries, loc) ==
    IF Len(entries) = 0 THEN <<>>
    ELSE SortInsert(SortEntries(SubSeq(entries, 1, Len(entries) - 1), loc),
                    entries[Len(entries)], loc)

\* Array.from(sdkMap.entries()).sort(...).map(([key, meaning]) => ({...}))
SdkRows(map, loc) ==
    LET sorted == SortEntries(map, loc)
    IN  [i \in 1..Len(sorted) |-> [keyName |-> sorted[i].key, keyMeaning |-> sorted[i].val]]

\* the rows generateSdkCsv serializes; an empty map returns '' before sorting
generateSdkCsvRows(map, loc) == IF Len(map) = 0 THEN <<>> ELSE SdkRows(map, loc)

-----------------------------------------------------------------------------
(* The documents the handler is run on *)

\* the frames the engine's call stack holds before a call throws a RangeError,
\* scaled down; the documents of Docs stay below it
StackLimit == 8

MaxDepth == 3      \* wrappers around a leaf in the nested documents
MaxConds == 2      \* members of a conditions block
MaxSdkKeys == 2    \* members of an SDK payload

T_a == <<"a">>
T_b == <<"b">>
T_n == <<"n">>
T_s1 == <<"s","1">>
T_t == <<"t">>
T_v == <<"v">>
T_x == <<"x">>
T_z == <<"z">>
T_bar == <<"b","a","r">>
T_baz == <<"b","a","z">>
T_foo == <<"f","o","o">>
T_child == <<"c","h","i","l","d">>
T_module_a == <<"m","o","d","u","l","e","_","a">>
T_module_b == <<"m","o","d","u","l","e","_","b">>
T_module_p == <<"m","o","d","u","l","e","_","p">>

\* a member that is left out when its value is Undefined
Opt(key, v) == IF v = Undefined THEN <<>> ELSE <<P(key, v)>>

ModuleNode(id, extra) ==
    Obj(<<P(K_id, Str(id)), P(K_type, Str(T_t)), P(K_name, Str(T_n)),
          P(K_stepId, Str(T_s1))>> \o extra)

Ma == ModuleNode(T_module_a, <<>>)
Mb == ModuleNode(T_module_b, <<>>)

\* nested documents: modules inside mappings, sequences and other modules
Leaves == {Num(1), Ma, Mb}

Wrap(t) ==
    {Obj(<<P(T_x, t)>>),
     ModuleNode(T_module_p, <<P(T_child, t)>>),
     Obj(<<P(T_b, Ma), P(<<"1">>, t)>>)}
    \cup {Arr(<<t, l>>) : l \in Leaves}

RECURSIVE Trees(_)
Trees(d) ==
    IF d = 0 THEN Leaves
    ELSE Leaves \cup UNION {Wrap(t) : t \in Trees(d - 1)}

\* one node, the members the module test reads varied together
IdVals == {Undefined, Num(7), Str(T_module_a), Str(ModulePrefix),
           Str(<<"m","o","d","u","l","e">>), Str(<<"x">> \o T_module_a)}
TypeVals == {Undefined, Num(1), Str(T_t), Str(<<>>)}
NameVals == {Undefined, Null, Str(T_n)}
StepIdVals == {Undefined, Num(0), Str(T_s1)}

PredicateDocs ==
    {Obj(Opt(K_id, i) \o Opt(K_type, t) \o Opt(K_name, nm) \o Opt(K_stepId, st)) :
        i \in IdVals, t \in TypeVals, nm \in NameVals, st \in StepIdVals}

\* one module, the values of its members varied over every JSON type
FieldVals == {Undefined, Null, Str(<<>>), Str(T_v), Num(0), Num(42), Bool(FALSE),
              Bool(TRUE), Obj(<<>>), Arr(<<Str(T_v)>>)}

FieldDocs ==
    {Obj(<<P(K_id, Str(T_module_a)), P(K_type, Str(T_t))>>
         \o Opt(K_subType, st) \o Opt(K_name, nm) \o <<P(K_stepId, Str(T_s1))>>) :
        st \in FieldVals, nm \in FieldVals}
    \cup
    {Obj(<<P(K_id, Str(T_module_a)), P(K_type, Str(T_t)), P(K_name, Str(T_n))>>
         \o Opt(K_nextStep, ns) \o Opt(K_version, ve) \o Opt(K_stepId, si)) :
        ns \in {Undefined, Num(42)}, ve \in {Undefined, Bool(TRUE), Num(0)}, si \in FieldVals}

\* two modules under every ordered pair of key spellings
KeySpellings == {T_a, T_b, <<"0">>, <<"1">>, <<"1","0">>, <<"0","1">>}

KeyOrderDocs ==
    {Obj(<<P(q[1], Ma), P(q[2], Mb)>>) :
        q \in {r \in KeySpellings \X KeySpellings : r[1] # r[2]}}


\* conditions blocks: members are appended while their keys stay distinct
T_condition_a == ConditionPrefix \o <<"a">>
T_condition_b == ConditionPrefix \o <<"b">>
T_condition_n == ConditionPrefix \o <<"n">>
T_other == <<"o","t","h","e","r">>
T_xcondition_c == <<"x">> \o ConditionPrefix \o <<"c">>
T_ifTrueConfigs_foo == K_ifTrueConfigs \o <<"_">> \o T_foo

FirstEntries ==
    {Obj(<<>>),
     Obj(<<P(T_bar, Str(T_z))>>),
     Obj(<<P(K_ifTrueConfigs, Obj(<<P(T_foo, Num(1))>>)), P(T_bar, Str(T_z))>>),
     Obj(<<P(K_ifTrueConfigs, Null), P(K_ifFalseConfigs, Str(T_z))>>),
     Obj(<<P(K_ifTrueConfigs, Arr(<<Num(1), Str(T_x)>>))>>),
     Obj(<<P(K_ifFalseConfigs, Obj(<<P(T_foo, Obj(<<P(T_baz, Num(1))>>))>>)),
           P(K_ifTrueConfigs, Obj(<<P(T_foo, Num(1)), P(T_bar, Null)>>))>>),
     Obj(<<P(K_conditionId, Str(T_z)), P(T_bar, Num(1))>>),
     Null,
     Num(5),
     Str(<<"a","b">>),
     Arr(<<Str(T_x)>>)}

SecondEntries ==
    {Obj(<<P(T_bar, Bool(TRUE)), P(T_ifTrueConfigs_foo, Num(2))>>),
     Obj(<<P(K_ifTrueConfigs, Obj(<<P(T_foo, Num(2))>>)), P(T_baz, Bool(FALSE))>>),
     Obj(<<P(T_condition_n, Obj(<<P(T_bar, Num(1))>>))>>),
     Null}

OtherEntries == {Obj(<<P(T_condition_n, Obj(<<P(T_foo, Num(1))>>))>>), Null}

CondPairs ==
    {P(T_condition_a, v) : v \in FirstEntries}
    \cup {P(T_condition_b, v) : v \in SecondEntries}
    \cup {P(T_other, v) : v \in OtherEntries}
    \cup {P(T_xcondition_c, Obj(<<P(T_bar, Num(1))>>))}

\* the member lists of at most n members drawn from pairs, keys distinct
RECURSIVE Members(_, _)
Members(pairs, n) ==
    IF n = 0 THEN {<<>>}
    ELSE LET shorter == Members(pairs, n - 1)
         IN  shorter \cup {Append(m, p) : m \in shorter,
                                          p \in pairs} 

DistinctKeys(m) == \A i, j \in 1..Len(m) : i # j => m[i].key # m[j].key

CondBlocks == {Obj(m) : m \in {mm \in Members(CondPairs, MaxConds) : DistinctKeys(mm)}}

ConditionDocs ==
    {Obj(<<P(K_conditions, c)>>) :
        c \in CondBlocks \cup {Null, Num(0), Num(5), Str(<<>>), Str(T_condition_a),
                               Bool(TRUE), Arr(<<Obj(<<P(T_bar, Num(1))>>)>>)}}

\* SDK payloads
T_B == <<"B">>
T_ux == <<"_","x">>
T_b1 == <<"b","1">>
T_Id == <<"I","d">>
T_q == <<"q">>
T_inner == <<"i","n","n","e","r">>
T_user == <<"u","s","e","r">>
T_firstName == <<"f","i","r","s","t","N","a","m","e">>

SdkPairs ==
    {P(T_a, Str(T_v)),
     P(T_a, Obj(<<P(K_id, Num(1)), P(T_B, Null)>>)),
     P(T_B, Num(0)),
     P(T_B, Null),
     P(T_ux, Arr(<<Str(T_v)>>)),
     P(T_ux, Arr(<<Obj(<<P(T_q, Num(1))>>)>>)),
     P(T_b1, Str(T_v)),
     P(K_id, Str(T_v)),
     P(K_id, Obj(<<P(T_a, Bool(TRUE)), P(T_inner, Obj(<<P(T_B, Num(1))>>))>>)),
     P(T_Id, Str(T_v)),
     P(T_user, Obj(<<P(T_firstName, Str(<<"B","o","b">>))>>))}

SdkPayloads ==
    {Obj(m) : m \in {mm \in Members(SdkPairs, MaxSdkKeys) : DistinctKeys(mm)}}
    \cup {Null, Num(5), Str(<<"a","b">>), Bool(TRUE),
          Arr(<<Str(T_v), Obj(<<P(T_a, Num(1))>>)>>)}

SdkDocs ==
    {Obj(<<P(K_sdkResponse, p)>>) : p \in SdkPayloads}
    \cup {Obj(<<P(K_sdkResponses, Obj(<<p>>))>>) : p \in SdkPairs}
    \cup {Obj(<<P(K_sdkResponse, x), P(K_sdkResponses, Obj(<<P(T_a, Str(T_v))>>))>>) :
             x \in {Obj(<<>>), Null, Num(0), Str(<<>>), Obj(<<P(T_B, Num(1))>>)}}

\* documents whose root is not a mapping, and documents with every part
RootDocs == {Null, Num(5), Num(0), Str(<<"a","b">>), Bool(TRUE), Arr(<<>>), Arr(<<Ma, Mb>>)}

FullDocs ==
    {Obj(<<>>)}
    \cup
    {Obj(<<P(T_a, Ma),
           P(K_conditions, Obj(<<P(T_condition_a, c)>>)),
           P(K_sdkResponse, Obj(<<P(T_user, Obj(<<P(T_firstName, Str(T_v))>>))>>))>>) :
        c \in {Mb, Obj(<<P(K_ifTrueConfigs, Obj(<<P(T_foo, Num(1))>>)), P(T_bar, Str(T_z))>>)}}

Docs ==
    Trees(MaxDepth) \cup PredicateDocs \cup FieldDocs \cup KeyOrderDocs
    \cup ConditionDocs \cup SdkDocs \cup RootDocs \cup FullDocs

\* documents nested up to and beyond what the call stack holds: kind says what
\* each level is, a mapping, a sequence or a module node
RECURSIVE Nest(_, _, _)
Nest(kind, d, leaf) ==
    IF d = 0 THEN leaf
    ELSE CASE kind = "object" -> Obj(<<P(T_x, Nest(kind, d - 1, leaf))>>)
           [] kind = "array" -> Arr(<<Nest(kind, d - 1, leaf)>>)
           [] OTHER -> ModuleNode(T_module_p, <<P(T_child, Nest(kind, d - 1, leaf))>>)

DeepDocs ==
    {Nest(kind, d, leaf) : kind \in {"object", "array", "module"}, d \in 0..(StackLimit + 1),
                           leaf \in {Ma, Num(1)}}
    \cup {Obj(<<P(K_sdkResponse, Nest("object", d, Obj(<<P(T_a, Str(T_v))>>)))>>) :
             d \in 0..(StackLimit + 1)}
    \cup {Obj(<<P(K_conditions, Obj(<<P(T_condition_a, v)>>))>>) :
             v \in {Null, Nest("array", StackLimit - 4, Num(1))}}

Locales == {"en", "da"}

-----------------------------------------------------------------------------
(* The POST handler *)

NoResponse ==
    [status |-> 0, error |-> <<>>, modules |-> <<>>, conditions |-> <<>>, sdk |-> <<>>,
     headers |-> [modules |-> <<>>, conditions |-> <<>>, sdk |-> <<>>],
     stats |-> [totalModules |-> 0, totalConditions |-> 0, totalSdkKeys |-> 0,
                moduleTypes |-> <<>>, conditionKeys |-> <<>>]]

T_keyName == <<"k","e","y","N","a","m","e">>
T_keyMeaning == <<"k","e","y","M","e","a","n","i","n","g">>
NoFileError == <<"N","o"," ","f","i","l","e"," ","u","p","l","o","a","d","e","d">>
InternalError == <<"I","n","t","e","r","n","a","l"," ","s","e","r","v","e","r"," ",
                   "e","r","r","o","r">>

\* [...new Set(items)]
RECURSIVE Unique(_)
Unique(items) ==
    IF Len(items) = 0 THEN <<>>
    ELSE SetAdd(Unique(SubSeq(items, 1, Len(items) - 1)), items[Len(items)])

\* a property read data.key: a TypeError on null and undefined
PropertyReadThrows(v) == v.k \in {"null", "undefined"}

\* the frames extractModules(obj, modules) stacks up: one for the call and, for
\* a non-null object or array, those of the deepest call on one of its values
Max(S) == CHOOSE m \in S : \A x \in S : x <= m

RECURSIVE Frames(_)
Frames(obj) ==
    IF TypeofObject(obj) /\ obj.k # "null"
    THEN 1 + Max({0} \cup {Frames(obj.e[i].val) : i \in 1..Len(obj.e)})
    ELSE 1

\* the calls extractModules(obj, modules) makes, obj at path: the call itself,
\* then one call per value of a non-null object or array, in order; a call
\* that needs more frames than the stack holds throws and ends them all
RECURSIVE extractModulesCalls(_, _)
RECURSIVE extractModulesCallsEach(_, _, _, _)
extractModulesCalls(obj, path) ==
    IF Len(path) + 1 > StackLimit THEN [calls |-> <<>>, threw |-> TRUE]
    ELSE IF TypeofObject(obj) /\ obj.k # "null"
    THEN extractModulesCallsEach(ObjectValues(obj), path, 1,
                                 [calls |-> <<path>>, threw |-> FALSE])
    ELSE [calls |-> <<path>>, threw |-> FALSE]

extractModulesCallsEach(values, path, i, made) ==
    IF i > Len(values) \/ made.threw THEN made
    ELSE LET r == extractModulesCalls(values[i], Append(path, i))
         IN  extractModulesCallsEach(values, path, i + 1,
                                     [calls |-> made.calls \o r.calls, threw |-> r.threw])

\* the calls collectSdkKeys(obj, collected) makes, obj at path: the call
\* itself, then one per entry whose value is a non-null object or array
RECURSIVE collectSdkKeysCalls(_, _)
RECURSIVE collectSdkKeysCallsEach(_, _, _)
collectSdkKeysCalls(obj, path) ==
    IF TypeofObject(obj) /\ obj.k # "null"
    THEN <<path>> \o collectSdkKeysCallsEach(ObjectEntries(obj), path, 1)
    ELSE <<path>>

collectSdkKeysCallsEach(entries, path, i) ==
    IF i > Len(entries) THEN <<>>
    ELSE (IF TypeofObject(entries[i].val) /\ entries[i].val.k # "null"
          THEN collectSdkKeysCalls(entries[i].val, Append(path, i))
          ELSE <<>>)
         \o collectSdkKeysCallsEach(entries, path, i + 1)

\* ---------- CSV GENERATION ----------

HasChar(t, c) == \E i \in 1..Len(t) : t[i] = c

\* csv-stringify's default cast of a field to text: a string is itself, a number
\* its decimal text, true '1', false '', an object its JSON text, and null or
\* undefined (a column the record lacks) nothing
CastField(v) ==
    CASE v.k = "string" -> v.s
      [] v.k = "number" -> NumToText(v.n)
      [] v.k = "boolean" -> IF v.b THEN <<"1">> ELSE <<>>
      [] v.k \in {"object", "array"} -> JSONStringify(v)
      [] OTHER -> <<>>

\* value.replace(new RegExp(quote, 'g'), escape + quote), the escape being the quote
RECURSIVE DoubleQuotes(_)
DoubleQuotes(t) ==
    IF Len(t) = 0 THEN <<>>
    ELSE (IF t[1] = "\"" THEN <<"\"", "\"">> ELSE <<t[1]>>) \o DoubleQuotes(Tail(t))

\* one field as csv-stringify writes it: quoted when it holds the delimiter, the
\* quote or the record delimiter
CsvField(t) ==
    IF HasChar(t, ",") \/ HasChar(t, "\"") \/ HasChar(t, "\n")
    THEN <<"\"">> \o DoubleQuotes(t) \o <<"\"">>
    ELSE t

\* one record: the fields joined by the delimiter, then the record delimiter
CsvRecord(fields) == JoinComma([i \in 1..Len(fields) |-> CsvField(fields[i])]) \o <<"\n">>

RECURSIVE Concat(_)
Concat(texts) == IF Len(texts) = 0 THEN <<>> ELSE texts[1] \o Concat(Tail(texts))

\* stringify(rows, { header: true, columns }) of csv-stringify/sync: the header
\* record, then one record per row holding the row's value for each column
stringify(rows, columns) ==
    CsvRecord(columns)
    \o Concat([i \in 1..Len(rows) |->
                 CsvRecord([j \in 1..Len(columns) |-> CastField(Get(Obj(rows[i]), columns[j]))])])

generateCsv(rows, headers) == IF Len(rows) = 0 THEN <<>> ELSE stringify(rows, headers)

\* a module record and a glossary row as [key, val] properties, in key order
ModuleProps(m) ==
    <<P(K_type, m.type), P(K_subType, m.subType), P(K_id, m.id), P(K_nextStep, m.nextStep),
      P(K_name, m.name), P(K_version, m.version), P(K_stepId, m.stepId)>>

SdkProps(row) == <<P(T_keyName, Str(row.keyName)), P(T_keyMeaning, Str(row.keyMeaning))>>

\* stringify(rows, { header: true }): the columns are the keys of the first record
generateSdkCsv(map, loc) ==
    IF Len(map) = 0 THEN <<>>
    ELSE stringify([i \in 1..Len(map) |-> SdkProps(SdkRows(map, loc)[i])],
                   <<T_keyName, T_keyMeaning>>)

\* the state when POST has been called with a document of docs, or with no
\* file, or with a file that is not JSON
HandlerInit(docs) ==
    /\ \/ file = "json" /\ doc \in docs
       \/ file \in {"none", "malformed"} /\ doc = Undefined
    /\ locale \in Locales
    /\ pc = "parse"
    /\ data = Undefined
    /\ modules = <<>>
    /\ conditions = <<>>
    /\ conditionHeaders = <<>>
    /\ sdkMap = <<>>
    /\ sdkCsvRows = <<>>
    /\ modulesCsv = <<>>
    /\ conditionsCsv = <<>>
    /\ sdkCsv = <<>>
    /\ response = NoResponse
    /\ moduleCalls = <<>>
    /\ sdkCalls = <<>>

\* no page is open, no other call runs, humanizeKey is not looked at on its own
NoPage ==
    [component |-> "", files |-> <<>>, loading |-> FALSE, error |-> <<>>, data |-> NoResponse]

NoExport == [type |-> "", text |-> <<>>]

PageIdle == exported = NoExport /\ page = NoPage /\ requests = <<>>

Alone == calls = <<>> /\ keyText = <<>> /\ humanized = <<>>

Init == HandlerInit(Docs) /\ PageIdle /\ Alone

\* if (!file) return ... status: 400
NoFile ==
    /\ pc = "parse"
    /\ file = "none"
    /\ response' = [NoResponse EXCEPT !.status = 400, !.error = NoFileError]
    /\ pc' = "done"
    /\ UNCHANGED <<file, doc, locale, data, modules, conditions, conditionHeaders,
                   sdkMap, csvOut, callLog>>
    /\ UNCHANGED beyondHandler

\* JSON.parse throws a SyntaxError on text that is not JSON
ParseFails ==
    /\ pc = "parse"
    /\ file = "malformed"
    /\ pc' = "catch"
    /\ UNCHANGED <<file, doc, locale, data, modules, conditions, conditionHeaders,
                   sdkMap, csvOut, response, callLog>>
    /\ UNCHANGED beyondHandler

\* const data = JSON.parse(...)
Parse ==
    /\ pc = "parse"
    /\ file = "json"
    /\ data' = JSONParse(doc)
    /\ pc' = "modules"
    /\ UNCHANGED <<file, doc, locale, modules, conditions, conditionHeaders, sdkMap,
                   csvOut, response, callLog>>
    /\ UNCHANGED beyondHandler

\* extractModules(data, modules); the recursion has no depth cap, so a document
\* nested deeper than the stack holds ends it with a RangeError
ExtractModules ==
    /\ pc = "modules"
    /\ IF Frames(data) > StackLimit
       THEN pc' = "catch" /\ UNCHANGED modules
       ELSE modules' = extractModules(data, <<>>) /\ pc' = "conditions"
    /\ moduleCalls' = extractModulesCalls(data, <<>>).calls
    /\ UNCHANGED <<file, doc, locale, data, conditions, conditionHeaders, sdkMap,
                   csvOut, response, sdkCalls>>
    /\ UNCHANGED beyondHandler

\* if (data.conditions) { ... extractConditions(data.conditions) ... }
ExtractConditions ==
    /\ pc = "conditions"
    /\ IF PropertyReadThrows(data)
       THEN pc' = "catch" /\ UNCHANGED <<conditions, conditionHeaders>>
       ELSE IF ~Truthy(Get(data, K_conditions))
       THEN pc' = "sdk" /\ UNCHANGED <<conditions, conditionHeaders>>
       ELSE LET r == extractConditions(Get(data, K_conditions))
            IN  IF r.threw
                THEN pc' = "catch" /\ UNCHANGED <<conditions, conditionHeaders>>
                ELSE /\ pc' = "sdk"
                     /\ conditions' = r.rows
                     /\ conditionHeaders' = r.headers
    /\ UNCHANGED <<file, doc, locale, data, modules, sdkMap, csvOut, response, callLog>>
    /\ UNCHANGED beyondHandler

\* the map after if (data.sdkResponse) { collectSdkKeys(data.sdkResponse, sdkMap) }
\* else if (data.sdkResponses) { collectSdkKeys(data.sdkResponses, sdkMap) }
\* the same with the two keys taken in the other order
CollectedSdk_ResponsesFirst(dat) ==
    IF Truthy(Get(dat, K_sdkResponses)) THEN collectSdkKeys(Get(dat, K_sdkResponses), <<>>)
    ELSE IF Truthy(Get(dat, K_sdkResponse)) THEN collectSdkKeys(Get(dat, K_sdkResponse), <<>>)
    ELSE <<>>

CollectedSdk(dat) ==
    IF Truthy(Get(dat, K_sdkResponse)) THEN collectSdkKeys(Get(dat, K_sdkResponse), <<>>)
    ELSE IF Truthy(Get(dat, K_sdkResponses)) THEN collectSdkKeys(Get(dat, K_sdkResponses), <<>>)
    ELSE <<>>

\* the calls of collectSdkKeys those two lines make, paths from the payload
CollectedSdkCalls(dat) ==
    IF Truthy(Get(dat, K_sdkResponse)) THEN collectSdkKeysCalls(Get(dat, K_sdkResponse), <<>>)
    ELSE IF Truthy(Get(dat, K_sdkResponses))
    THEN collectSdkKeysCalls(Get(dat, K_sdkResponses), <<>>)
    ELSE <<>>

\* if (data.sdkResponse) ... else if (data.sdkResponses) ...
CollectSdk ==
    /\ pc = "sdk"
    /\ sdkMap' = CollectedSdk(data)
    /\ sdkCalls' = CollectedSdkCalls(data)
    /\ pc' = "csv"
    /\ UNCHANGED <<file, doc, locale, data, modules, conditions, conditionHeaders,
                   csvOut, response, moduleCalls>>
    /\ UNCHANGED beyondHandler

\* the three CSV texts; the glossary rows are sorted for the CSV
GenerateCsvs ==
    /\ pc = "csv"
    /\ modulesCsv' = generateCsv([i \in 1..Len(modules) |-> ModuleProps(modules[i])],
                                 MODULE_FIELDS)
    /\ conditionsCsv' = generateCsv(conditions, conditionHeaders)
    /\ sdkCsvRows' = generateSdkCsvRows(sdkMap, locale)
    /\ sdkCsv' = generateSdkCsv(sdkMap, locale)
    /\ pc' = "respond"
    /\ UNCHANGED <<file, doc, locale, data, modules, conditions, conditionHeaders,
                   sdkMap, response, callLog>>
    /\ UNCHANGED beyondHandler

\* the body of NextResponse.json({...}), status 200
OkResponse(mods, conds, headers, map, loc) ==
    [status |-> 200, error |-> <<>>,
     modules |-> mods,
     conditions |-> conds,
     sdk |-> SdkRows(map, loc),
     headers |-> [modules |-> MODULE_FIELDS,
                  conditions |-> headers,
                  sdk |-> <<T_keyName, T_keyMeaning>>],
     stats |-> [totalModules |-> Len(mods),
                totalConditions |-> Len(conds),
                totalSdkKeys |-> Len(map),
                moduleTypes |-> Unique([i \in 1..Len(mods) |-> mods[i].type]),
                conditionKeys |-> headers]]

\* return NextResponse.json({...})
Respond ==
    /\ pc = "respond"
    /\ response' = OkResponse(modules, conditions, conditionHeaders, sdkMap, locale)
    /\ pc' = "done"
    /\ UNCHANGED <<file, doc, locale, data, modules, conditions, conditionHeaders,
                   sdkMap, csvOut, callLog>>
    /\ UNCHANGED beyondHandler

\* catch (error) { ... status: 500 }
Catch ==
    /\ pc = "catch"
    /\ response' = [NoResponse EXCEPT !.status = 500, !.error = InternalError]
    /\ pc' = "done"
    /\ UNCHANGED <<file, doc, locale, data, modules, conditions, conditionHeaders,
                   sdkMap, csvOut, callLog>>
    /\ UNCHANGED beyondHandler

Next ==
    \/ NoFile
    \/ ParseFails
    \/ Parse
    \/ ExtractModules
    \/ ExtractConditions
    \/ CollectSdk
    \/ GenerateCsvs
    \/ Respond
    \/ Catch

Spec == Init /\ [][Next]_vars

\* the handler on documents nested about as deep as the call stack holds
InitDeep == HandlerInit(DeepDocs) /\ PageIdle /\ Alone

SpecDeep == InitDeep /\ [][Next]_vars

-----------------------------------------------------------------------------
(* The page components: a file is selected, posted to the handler, and the   *)
(* answer is shown and exported                                              *)

T_ab == <<"a", ",", "b">>
T_qq == <<"q", "\"">>
T_bs == <<"b", "\\">>
T_lm == <<"l", "\n", "m">>

\* a conditions table whose header names and cells hold commas, quotes,
\* backslashes and line breaks, and whose second row lacks most columns
TableDoc ==
    Obj(<<P(K_conditions, Obj(<<
        P(T_condition_a, Obj(<<P(T_bar, Str(T_z)),
                               P(T_ab, Str(<<"x", "\"", "y">>)),
                               P(T_qq, Str(T_lm)),
                               P(T_bs, Str(<<"c", "\\", "d">>)),
                               P(T_lm, Str(<<"1", ",", "2">>))>>)),
        P(T_condition_b, Obj(<<P(T_bar, Str(<<>>)), P(T_foo, Num(0))>>))>>))>>)

\* a module and a glossary, in plain characters
ModuleDoc ==
    Obj(<<P(T_a, Obj(<<P(K_id, Str(T_module_a)), P(K_type, Str(T_t)),
                       P(K_name, Str(T_n)), P(K_stepId, Str(T_s1)),
                       P(K_version, Num(2))>>)),
          P(K_sdkResponse, Obj(<<P(T_firstName, Str(T_v)), P(T_b1, Num(1))>>))>>)

JsonFile(d) == [kind |-> "json", doc |-> d]

PageFiles ==
    {JsonFile(Obj(<<>>)), JsonFile(TableDoc), JsonFile(ModuleDoc), JsonFile(Null),
     [kind |-> "malformed", doc |-> Undefined]}

\* what a selection can hand over: nothing, one file, or two
Selections ==
    {<<>>} \cup {<<f>> : f \in PageFiles} \cup {<<JsonFile(ModuleDoc), JsonFile(TableDoc)>>}

T_FailedToFetch == <<"F","a","i","l","e","d"," ","t","o"," ","f","e","t","c","h">>
T_FailedToProcess == <<"F","a","i","l","e","d"," ","t","o"," ","p","r","o","c","e","s","s",
                       " ","f","i","l","e">>
T_BodyError == <<"U","n","e","x","p","e","c","t","e","d"," ","e","n","d"," ","o","f"," ",
                 "J","S","O","N"," ","i","n","p","u","t">>

\* no POST call has been made yet
HandlerIdle ==
    /\ file = "none"
    /\ doc = Undefined
    /\ locale \in Locales
    /\ pc = "idle"
    /\ data = Undefined
    /\ modules = <<>>
    /\ conditions = <<>>
    /\ conditionHeaders = <<>>
    /\ sdkMap = <<>>
    /\ sdkCsvRows = <<>>
    /\ modulesCsv = <<>>
    /\ conditionsCsv = <<>>
    /\ sdkCsv = <<>>
    /\ response = NoResponse
    /\ moduleCalls = <<>>
    /\ sdkCalls = <<>>

InitPage ==
    /\ HandlerIdle
    /\ page \in {[NoPage EXCEPT !.component = c] : c \in {"dropzone", "form"}}
    /\ requests = <<>>
    /\ exported = NoExport
    /\ Alone

\* fetch('/api/extract', { method: 'POST', body: formData }): a new POST call
\* with the file as its upload
Post(f) ==
    /\ file' = f.kind
    /\ doc' = f.doc
    /\ pc' = "parse"
    /\ data' = Undefined
    /\ modules' = <<>>
    /\ conditions' = <<>>
    /\ conditionHeaders' = <<>>
    /\ sdkMap' = <<>>
    /\ sdkCsvRows' = <<>>
    /\ modulesCsv' = <<>>
    /\ conditionsCsv' = <<>>
    /\ sdkCsv' = <<>>
    /\ response' = NoResponse
    /\ moduleCalls' = <<>>
    /\ sdkCalls' = <<>>
    /\ UNCHANGED locale

\* onDrop: setFiles(acceptedFiles); setError(null); setData(null)
OnDrop(acceptedFiles) ==
    /\ page.component = "dropzone"
    /\ page' = [page EXCEPT !.files = acceptedFiles, !.error = <<>>, !.data = NoResponse]
    /\ exported' = NoExport
    /\ UNCHANGED <<requests, handlerVars, calls, keyText, humanized>>

\* handleFileChange: setFile(e.target.files[0]); setError(null)
HandleFileChange(selected) ==
    /\ page.component = "form"
    /\ Len(selected) <= 1
    /\ page' = [page EXCEPT !.files = selected, !.error = <<>>]
    /\ exported' = NoExport
    /\ UNCHANGED <<requests, handlerVars, calls, keyText, humanized>>

\* the part of processFiles and of handleSubmit before the first await
StartRequest ==
    /\ page' = [page EXCEPT !.loading = TRUE, !.error = <<>>]
    /\ requests' = Append(requests, [phase |-> "fetch"])
    /\ Post(page.files[1])
    /\ exported' = NoExport
    /\ UNCHANGED <<calls, keyText, humanized>>

\* processFiles, from the button that is rendered when files.length > 0 and is
\* disabled while loading
ProcessFiles ==
    /\ page.component = "dropzone"
    /\ Len(page.files) > 0
    /\ ~page.loading
    /\ StartRequest

\* handleSubmit, from the button that is disabled when !file || loading
HandleSubmit ==
    /\ page.component = "form"
    /\ Len(page.files) > 0
    /\ ~page.loading
    /\ StartRequest

\* the catch without the finally: loading is left as it was
CatchFinally_NoFinally(message) ==
    /\ page' = [page EXCEPT !.error = message]
    /\ requests' = Tail(requests)

\* catch (err) { setError(err.message) } finally { setLoading(false) }
CatchFinally(message) ==
    /\ page' = [page EXCEPT !.error = message, !.loading = FALSE]
    /\ requests' = Tail(requests)

\* await fetch(...) rejects: the network failed
FetchRejects ==
    /\ requests # <<>>
    /\ requests[1].phase = "fetch"
    /\ CatchFinally(T_FailedToFetch)
    /\ exported' = NoExport
    /\ UNCHANGED <<handlerVars, calls, keyText, humanized>>

\* await fetch(...) resolves with the handler's response; both branches go on
\* to read the body
FetchResolves ==
    /\ requests # <<>>
    /\ requests[1].phase = "fetch"
    /\ pc = "done"
    /\ requests' = <<[phase |-> IF response.status = 200 THEN "body" ELSE "error body"]>>
                   \o Tail(requests)
    /\ exported' = NoExport
    /\ UNCHANGED <<page, handlerVars, calls, keyText, humanized>>

\* err.error || 'Failed to process file'
ErrorMessage(body) == IF body.error # <<>> THEN body.error ELSE T_FailedToProcess

\* the body arrives.  !response.ok: throw new Error(err.error || ...), caught;
\* otherwise processFiles does setData(result) and handleSubmit downloads the
\* blob; then finally
BodyResolves ==
    /\ requests # <<>>
    /\ requests[1].phase \in {"body", "error body"}
    /\ IF requests[1].phase = "error body"
       THEN CatchFinally(ErrorMessage(response))
       ELSE /\ page' = [page EXCEPT
                          !.data = IF page.component = "dropzone" THEN response ELSE @,
                          !.loading = FALSE]
            /\ requests' = Tail(requests)
    /\ exported' = NoExport
    /\ UNCHANGED <<handlerVars, calls, keyText, humanized>>

\* await response.json() or response.blob() rejects
BodyRejects ==
    /\ requests # <<>>
    /\ requests[1].phase \in {"body", "error body"}
    /\ CatchFinally(T_BodyError)
    /\ exported' = NoExport
    /\ UNCHANGED <<handlerVars, calls, keyText, humanized>>

\* [ ... ].join('\n')
RECURSIVE JoinLines(_)
JoinLines(lines) ==
    IF Len(lines) = 0 THEN <<>>
    ELSE IF Len(lines) = 1 THEN lines[1]
    ELSE lines[1] \o <<"\n">> \o JoinLines(Tail(lines))

\* the rows of one dataset of the page's data, each as [key, val] properties
DataRows(d, type) ==
    CASE type = "modules" -> [i \in 1..Len(d.modules) |-> ModuleProps(d.modules[i])]
      [] type = "conditions" -> d.conditions
      [] OTHER -> [i \in 1..Len(d.sdk) |-> SdkProps(d.sdk[i])]

\* exportData('csv', type) for one dataset: the header names joined as they
\* are, then JSON.stringify(row[h] || '') for every cell
exportCsv(csvData, headers) ==
    JoinLines(<<JoinComma(headers)>>
              \o [i \in 1..Len(csvData) |->
                    JoinComma([j \in 1..Len(headers) |->
                                 JSONStringify(OrEmpty(Get(Obj(csvData[i]), headers[j])))])])

\* exportData('csv', type), type one of the three datasets; if (!data) return
ExportCsv(type) ==
    /\ page.component = "dropzone"
    /\ page.data # NoResponse
    /\ exported' = [type |-> type, text |-> exportCsv(DataRows(page.data, type),
                                                       page.data.headers[type])]
    /\ UNCHANGED <<page, requests, handlerVars, calls, keyText, humanized>>

NextPage ==
    \/ \E acceptedFiles \in Selections : OnDrop(acceptedFiles)
    \/ \E selected \in Selections : HandleFileChange(selected)
    \/ ProcessFiles
    \/ HandleSubmit
    \/ ParseFails
    \/ Parse
    \/ ExtractModules
    \/ ExtractConditions
    \/ CollectSdk
    \/ GenerateCsvs
    \/ Respond
    \/ Catch
    \/ FetchRejects
    \/ FetchResolves
    \/ BodyResolves
    \/ BodyRejects
    \/ \E type \in {"modules", "conditions", "sdk"} : ExportCsv(type)

SpecPage == InitPage /\ [][NextPage]_vars

-----------------------------------------------------------------------------
(* POST calls that run together: each call has its own locals, and they      *)
(* interleave at the two awaits before JSON.parse                            *)

\* a glossary whose keys differ in case only
CaseDoc == Obj(<<P(K_sdkResponse, Obj(<<P(T_Id, Str(T_v)), P(K_id, Str(T_v))>>))>>)

CallFiles == PageFiles \cup {JsonFile(CaseDoc), [kind |-> "none", doc |-> Undefined]}

CallIds == {1, 2}

ErrorResponse(status, message) == [NoResponse EXCEPT !.status = status, !.error = message]

\* everything POST does after the awaits, which runs without interruption: the
\* response for an upload f.kind with document d in a runtime that collates
\* with loc
HandlerResult(kind, d, loc) ==
    IF kind = "none" THEN ErrorResponse(400, NoFileError)
    ELSE IF kind = "malformed" THEN ErrorResponse(500, InternalError)
    ELSE LET dat == JSONParse(d)
         IN  IF Frames(dat) > StackLimit \/ PropertyReadThrows(dat)
             THEN ErrorResponse(500, InternalError)
             ELSE LET c == IF Truthy(Get(dat, K_conditions))
                           THEN extractConditions(Get(dat, K_conditions))
                           ELSE [rows |-> <<>>, headers |-> <<>>, threw |-> FALSE]
                  IN  IF c.threw THEN ErrorResponse(500, InternalError)
                      ELSE OkResponse(extractModules(dat, <<>>), c.rows, c.headers,
                                      CollectedSdk(dat), loc)

NewCall(f, loc) ==
    [file |-> f.kind, doc |-> f.doc, locale |-> loc, pc |-> "formData", response |-> NoResponse]

InitCalls ==
    /\ HandlerIdle
    /\ PageIdle
    /\ keyText = <<>>
    /\ humanized = <<>>
    /\ calls \in [CallIds -> {NewCall(f, loc) : f \in CallFiles, loc \in Locales}]

\* await request.formData() resolves; if (!file) return ... status: 400
FormData(c) ==
    /\ calls[c].pc = "formData"
    /\ calls' = [calls EXCEPT ![c] =
                   IF calls[c].file = "none"
                   THEN [@ EXCEPT !.pc = "done",
                                  !.response = HandlerResult("none", calls[c].doc, calls[c].locale)]
                   ELSE [@ EXCEPT !.pc = "arrayBuffer"]]
    /\ UNCHANGED <<handlerVars, pageVars, keyText, humanized>>

\* await file.arrayBuffer() resolves and the call runs to its return
RunCall(c) ==
    /\ calls[c].pc = "arrayBuffer"
    /\ calls' = [calls EXCEPT ![c] =
                   [@ EXCEPT !.pc = "done",
                             !.response = HandlerResult(calls[c].file, calls[c].doc,
                                                        calls[c].locale)]]
    /\ UNCHANGED <<handlerVars, pageVars, keyText, humanized>>

NextCalls ==
    \/ \E c \in CallIds : FormData(c)
    \/ \E c \in CallIds : RunCall(c)

SpecCalls == InitCalls /\ [][NextCalls]_vars

-----------------------------------------------------------------------------
(* humanizeKey on its own *)

\* the characters keys are written with: two lower-case letters, two capitals,
\* the underscore and a digit
KeyChars == {"a", "b", "B", "C", "_", "1"}

MaxKeyLen == 4

RECURSIVE TextsUpTo(_)
TextsUpTo(n) ==
    IF n = 0 THEN {<<>>}
    ELSE LET shorter == TextsUpTo(n - 1)
         IN  shorter \cup {Append(t, c) : t \in {u \in shorter : Len(u) = n - 1},
                                           c \in KeyChars}

Keys == TextsUpTo(MaxKeyLen)

InitHumanize ==
    /\ HandlerIdle
    /\ PageIdle
    /\ calls = <<>>
    /\ keyText \in Keys
    /\ humanized = <<>>

\* humanizeKey(key)
Humanize ==
    /\ humanized = <<>>
    /\ humanized' = <<humanizeKey(keyText)>>
    /\ UNCHANGED <<handlerVars, pageVars, calls, keyText>>

\* humanizeKey(humanizeKey(key))
HumanizeAgain ==
    /\ Len(humanized) = 1
    /\ humanized' = Append(humanized, humanizeKey(humanized[1]))
    /\ UNCHANGED <<handlerVars, pageVars, calls, keyText>>

NextHumanize ==
    \/ Humanize
    \/ HumanizeAgain

SpecHumanize == InitHumanize /\ [][NextHumanize]_vars

-----------------------------------------------------------------------------
(* The document as a tree: what the claims about the extractors refer to *)

\* positions of the nodes of a value: a path lists member positions from the root
RECURSIVE Paths(_)
Paths(v) ==
    IF v.k \in {"object", "array"}
    THEN {<<>>} \cup UNION {{<<i>> \o p : p \in Paths(v.e[i].val)} : i \in 1..Len(v.e)}
    ELSE {<<>>}

RECURSIVE NodeAt(_, _)
NodeAt(v, p) == IF Len(p) = 0 THEN v ELSE NodeAt(v.e[p[1]].val, Tail(p))

IsProperPrefix(q, p) == Len(q) < Len(p) /\ SubSeq(p, 1, Len(q)) = q

RECURSIVE ConcatAll(_)
ConcatAll(seqs) == IF Len(seqs) = 0 THEN <<>> ELSE seqs[1] \o ConcatAll(Tail(seqs))

Count(seq, x) == Cardinality({i \in 1..Len(seq) : seq[i] = x})

\* the module predicate as the specification words it
IsModuleNode(node) ==
    /\ node.k = "object"
    /\ \E i \in 1..Len(node.e) :
          /\ node.e[i].key = K_id
          /\ node.e[i].val.k = "string"
          /\ StartsWith(node.e[i].val.s, ModulePrefix)
    /\ \E i \in 1..Len(node.e) : node.e[i].key = K_type /\ node.e[i].val.k = "string"
    /\ \E i \in 1..Len(node.e) : node.e[i].key = K_name
    /\ \E i \in 1..Len(node.e) : node.e[i].key = K_stepId

\* the node's value at key, or the empty string when it is missing, null, 0,
\* false or empty
FieldOrEmpty(node, key) ==
    LET at == {i \in 1..Len(node.e) : node.e[i].key = key}
    IN  IF at = {} THEN Str(<<>>)
        ELSE LET v == node.e[CHOOSE i \in at : TRUE].val
             IN  IF v \in {Null, Num(0), Bool(FALSE), Str(<<>>)} THEN Str(<<>>) ELSE v

ExpectedRecord(node) ==
    [type     |-> FieldOrEmpty(node, K_type),
     subType  |-> FieldOrEmpty(node, K_subType),
     id       |-> FieldOrEmpty(node, K_id),
     nextStep |-> FieldOrEmpty(node, K_nextStep),
     name     |-> FieldOrEmpty(node, K_name),
     version  |-> FieldOrEmpty(node, K_version),
     stepId   |-> FieldOrEmpty(node, K_stepId)]

MatchingPaths(d) == {p \in Paths(d) : IsModuleNode(NodeAt(d, p))}

\* extractModules has returned
ModulesExtracted == file = "json" /\ pc \notin {"parse", "modules"}

RecordFields == {"type", "subType", "id", "nextStep", "name", "version", "stepId"}

-----------------------------------------------------------------------------
(* Claims about the module extractor *)

\* C1: extractModules emits exactly one record per mapping node that satisfies
\* the module predicate, at any depth, inside sequences and inside other
\* matching nodes, and no other record; each record holds the node's seven
\* values, the empty string standing for a missing, null, 0, false or empty one.
C1_OneRecordPerModuleNode ==
    ModulesExtracted =>
        /\ Len(modules) = Cardinality(MatchingPaths(doc))
        /\ \A p \in MatchingPaths(doc) :
              Count(modules, ExpectedRecord(NodeAt(doc, p)))
                = Cardinality({q \in MatchingPaths(doc) :
                                  ExpectedRecord(NodeAt(doc, q)) = ExpectedRecord(NodeAt(doc, p))})

\* a module nested in a module nested in a sequence, under a mapping that does
\* not match, with a defaulted field in the first record
C1_Witness ==
    /\ pc = "done"
    /\ Len(modules) >= 3
    /\ modules[1].subType = Str(<<>>)
    /\ \E p, q \in MatchingPaths(doc) :
          /\ IsProperPrefix(q, p)
          /\ \E r \in Paths(doc) : IsProperPrefix(r, q) /\ NodeAt(doc, r).k = "array"
    /\ \E r \in Paths(doc) : NodeAt(doc, r).k = "object" /\ ~IsModuleNode(NodeAt(doc, r))

\* C2: every field of every emitted record is text, whatever the type of the
\* source value at that key.
C2_EveryFieldIsText ==
    ModulesExtracted =>
        \A i \in 1..Len(modules) : \A f \in RecordFields : modules[i][f].k = "string"

\* the records of the matching nodes in pre-order over the source document:
\* a node before its descendants, members in source order
RECURSIVE PreOrderRecords(_)
PreOrderRecords(v) ==
    IF v.k \in {"object", "array"}
    THEN (IF IsModuleNode(v) THEN <<ExpectedRecord(v)>> ELSE <<>>)
         \o ConcatAll([i \in 1..Len(v.e) |-> PreOrderRecords(v.e[i].val)])
    ELSE <<>>

\* C3: the records are in pre-order depth-first discovery order, the members of
\* a mapping taken in the order their keys appear in the source document, for
\* every key spelling.
C3_SourceOrder == ModulesExtracted => modules = PreOrderRecords(doc)

-----------------------------------------------------------------------------
(* Claims about the condition flattener *)

\* extractConditions was called and has returned
ConditionsReturned ==
    /\ pc \in {"sdk", "csv", "respond"} \/ (pc = "done" /\ response.status = 200)
    /\ Truthy(Get(data, K_conditions))

\* the conditions node of the source document and its top-level members whose
\* key begins with condition_, in document order
SourceConditions == Get(doc, K_conditions)

TopMembers(node) == IF node.k \in {"object", "array"} THEN node.e ELSE <<>>

ConditionMembers(node) ==
    SelectSeq(TopMembers(node), LAMBDA m : StartsWith(m.key, ConditionPrefix))

Columns(row) == {row[i].key : i \in 1..Len(row)}

Cell(row, col) == row[CHOOSE i \in 1..Len(row) : row[i].key = col].val

SeqSet(seq) == {seq[i] : i \in 1..Len(seq)}

\* C4: extractConditions returns exactly one row per top-level key of the
\* conditions node that begins with condition_, in scan order, and nothing
\* else: other top-level keys give no row and no header, and are not descended
\* into.  (The i-th row is recognised by its conditionId, which is the i-th key
\* unless the entry has a member named conditionId of its own.)
C4_OneRowPerConditionKey ==
    ConditionsReturned =>
        LET ms == ConditionMembers(SourceConditions)
        IN  /\ Len(conditions) = Len(ms)
            /\ \A i \in 1..Len(conditions) :
                  \/ \E m \in SeqSet(ObjectEntries(ms[i].val)) : m.key = K_conditionId
                  \/ Cell(conditions[i], K_conditionId) = Str(ms[i].key)
            /\ \A h \in SeqSet(conditionHeaders) :
                  \E i \in 1..Len(conditions) : h \in Columns(conditions[i])

\* one row, beside a top-level key without the prefix whose value holds a
\* condition_ key
C4_Witness ==
    /\ pc = "done"
    /\ ConditionsReturned
    /\ Len(conditions) = 1
    /\ Len(conditionHeaders) >= 1
    /\ \E m \in SeqSet(TopMembers(SourceConditions)) :
          /\ ~StartsWith(m.key, ConditionPrefix)
          /\ m.val.k = "object"
          /\ \E n \in SeqSet(m.val.e) : StartsWith(n.key, ConditionPrefix)

\* C5: every returned row has a conditionId column whose value is the
\* condition_ key of the entry the row was built from, whatever the entry holds.
C5_ConditionIdIsTheKey ==
    ConditionsReturned =>
        LET ms == ConditionMembers(SourceConditions)
        IN  /\ Len(conditions) = Len(ms)
            /\ \A i \in 1..Len(conditions) :
                  /\ K_conditionId \in Columns(conditions[i])
                  /\ Cell(conditions[i], K_conditionId) = Str(ms[i].key)

\* the column names in the order the scan of the parsed conditions node meets
\* them: a branch config (a member named ifTrueConfigs or ifFalseConfigs whose
\* value is a non-null object) gives one name per nested key, any other member
\* its own key
IsBranchConfig(m) ==
    m.key \in {K_ifTrueConfigs, K_ifFalseConfigs} /\ m.val.k \in {"object", "array"}

MemberNames(m) ==
    IF IsBranchConfig(m)
    THEN [j \in 1..Len(m.val.e) |-> m.key \o <<"_">> \o m.val.e[j].key]
    ELSE <<m.key>>

EntryNames(entry) ==
    LET es == ObjectEntries(entry)
    IN  ConcatAll([j \in 1..Len(es) |-> MemberNames(es[j])])

ScannedNames ==
    LET ms == ConditionMembers(Get(data, K_conditions))
    IN  ConcatAll([i \in 1..Len(ms) |-> EntryNames(ms[i].val)])

FirstOccurrences(seq) ==
    LET firsts == {i \in 1..Len(seq) : \A j \in 1..(i - 1) : seq[j] # seq[i]}
        RECURSIVE Pick(_)
        Pick(i) == IF i > Len(seq) THEN <<>>
                   ELSE (IF i \in firsts THEN <<seq[i]>> ELSE <<>>) \o Pick(i + 1)
    IN  Pick(1)

NoDuplicates(seq) == \A i, j \in 1..Len(seq) : i # j => seq[i] # seq[j]

\* C6: the header list has no duplicates and lists exactly the column names
\* met while scanning the condition_ entries, each at the position of its first
\* occurrence; a name met again, in a later row or through the other branch, is
\* not added again and does not move.
C6_HeadersAreFirstOccurrences ==
    ConditionsReturned =>
        /\ NoDuplicates(conditionHeaders)
        /\ conditionHeaders = FirstOccurrences(ScannedNames)

\* two rows that share the names bar and ifTrueConfigs_foo, the second name
\* coming once from a branch config and once from a plain key
C6_Witness ==
    /\ pc = "done"
    /\ ConditionsReturned
    /\ Len(conditions) = 2
    /\ Count(ScannedNames, T_bar) = 2
    /\ Count(ScannedNames, T_ifTrueConfigs_foo) = 2
    /\ conditionHeaders = <<T_ifTrueConfigs_foo, T_bar>>
    /\ K_ifTrueConfigs \in {m.key : m \in SeqSet(ObjectEntries(Get(data, K_conditions).e[1].val))}
    /\ T_ifTrueConfigs_foo \in {m.key : m \in SeqSet(ObjectEntries(Get(data, K_conditions).e[2].val))}

\* C7: when at least one row is returned, the names in the header list are
\* exactly the column names present in the rows, conditionId included.
C7_HeadersAreTheColumnUnion ==
    (pc = "done" /\ response.status = 200 /\ Len(response.conditions) >= 1) =>
        SeqSet(response.headers.conditions)
          = UNION {Columns(response.conditions[i]) : i \in 1..Len(response.conditions)}

-----------------------------------------------------------------------------
(* Claims about the glossary *)

\* collectSdkKeys has returned
SdkCollected == pc \in {"csv", "respond"} \/ (pc = "done" /\ response.status = 200)

\* the payload of the source document the glossary is built from
SourcePayload ==
    IF Truthy(Get(doc, K_sdkResponse)) THEN Get(doc, K_sdkResponse)
    ELSE IF Truthy(Get(doc, K_sdkResponses)) THEN Get(doc, K_sdkResponses)
    ELSE Undefined

\* the key names that occur, at any depth of the payload's mappings, with a
\* value that is not a mapping: a scalar, null or a sequence
RECURSIVE LeafKeys(_)
LeafKeys(v) ==
    IF v.k = "object"
    THEN UNION {IF v.e[i].val.k = "object" THEN LeafKeys(v.e[i].val) ELSE {v.e[i].key} :
                   i \in 1..Len(v.e)}
    ELSE {}

\* C8: the glossary holds exactly one entry (k, humanize(k)) for every key name
\* k that occurs in the payload's mappings with a value that is not a non-null
\* mapping, a sequence being a leaf that is not descended into, and no other
\* entry.
C8_GlossaryIsTheLeafKeys ==
    SdkCollected =>
        /\ NoDuplicates([i \in 1..Len(sdkMap) |-> sdkMap[i].key])
        /\ SeqSet(sdkMap) = {P(kk, humanizeKey(kk)) : kk \in LeafKeys(SourcePayload)}

\* the UTF-16 code unit of a character
CodeUnit(c) ==
    CASE IsDigit(c) -> 47 + IndexOf(DigitChars, c)
      [] IsUpper(c) -> 64 + IndexOf(UpperLetters, c)
      [] IsLower(c) -> 96 + IndexOf(LowerLetters, c)
      [] c = " " -> 32
      [] c = "\"" -> 34
      [] c = "," -> 44
      [] c = "-" -> 45
      [] c = ":" -> 58
      [] c = "[" -> 91
      [] c = "\\" -> 92
      [] c = "]" -> 93
      [] c = "_" -> 95
      [] c = "{" -> 123
      [] c = "}" -> 125

\* a < b under ordinal comparison
RECURSIVE OrdinalLess(_, _)
OrdinalLess(a, b) ==
    IF Len(b) = 0 THEN FALSE
    ELSE IF Len(a) = 0 THEN TRUE
    ELSE IF CodeUnit(a[1]) # CodeUnit(b[1]) THEN CodeUnit(a[1]) < CodeUnit(b[1])
    ELSE OrdinalLess(Tail(a), Tail(b))

OrdinalAscending(rows) ==
    \A i \in 1..(Len(rows) - 1) : OrdinalLess(rows[i].keyName, rows[i + 1].keyName)

\* C9: the glossary rows of the JSON response and of the glossary CSV are
\* sorted strictly ascending by keyName under ordinal comparison.
C9_GlossarySortedOrdinal ==
    (pc = "done" /\ response.status = 200) =>
        OrdinalAscending(response.sdk) /\ OrdinalAscending(sdkCsvRows)

-----------------------------------------------------------------------------
(* Claims about errors *)

\* C10: for every well-formed document, whatever the types of its values, the
\* extraction completes with the three datasets and raises no error.
C10_NoErrorOnWellFormedDocument ==
    file = "json" =>
        /\ pc # "catch"
        /\ pc = "done" => response.status = 200

-----------------------------------------------------------------------------
(* Missing parts of the document *)

\* the source document has a top-level member named key
HasTopKey(key) == \E i \in 1..Len(TopMembers(doc)) : TopMembers(doc)[i].key = key

Finished == file = "json" /\ pc = "done"

\* C11: a document with no conditions key gives an empty row sequence and an
\* empty header list, a document with neither sdkResponse nor sdkResponses
\* gives an empty glossary, and in both cases the handler returns no error;
\* for the document {} the three datasets are empty.
C11_MissingPartsAreEmptyNotErrors ==
    Finished =>
        /\ ~HasTopKey(K_conditions) =>
              /\ response.status = 200
              /\ response.conditions = <<>>
              /\ response.headers.conditions = <<>>
        /\ (~HasTopKey(K_sdkResponse) /\ ~HasTopKey(K_sdkResponses)) =>
              /\ response.status = 200
              /\ response.sdk = <<>>
        /\ doc = Obj(<<>>) =>
              /\ response.status = 200
              /\ response.modules = <<>>
              /\ response.conditions = <<>>
              /\ response.sdk = <<>>

\* the same statement on the documents the handler answers without an error
C11_OnAnsweredDocuments ==
    (Finished /\ response.status = 200) =>
        /\ ~HasTopKey(K_conditions) =>
              response.conditions = <<>> /\ response.headers.conditions = <<>>
        /\ (~HasTopKey(K_sdkResponse) /\ ~HasTopKey(K_sdkResponses)) => response.sdk = <<>>
        /\ doc = Obj(<<>>) => response.modules = <<>>

-----------------------------------------------------------------------------
(* Deep documents *)

\* the number of levels below the root of a document
Depth(v) == Max({Len(p) : p \in Paths(v)})

\* what the caller gets for input that fails to parse
ParseFailureResponse == [NoResponse EXCEPT !.status = 500, !.error = InternalError]

\* C12: a document nested deeper than the traversal can go is answered with a
\* bounded-resource error: the call stack is not exhausted, and the caller gets
\* an outcome that differs from the one for input that fails to parse.
C12_DeepDocumentHasItsOwnError ==
    (file = "json" /\ Depth(doc) >= StackLimit) =>
        /\ pc # "catch"
        /\ pc = "done" => response # ParseFailureResponse

-----------------------------------------------------------------------------
(* Delimited text: what a reader with the standard quoting rules makes of it *)

\* a character is outside quotes when an even number of quotes precedes it
OutsideQuotes(t, i) == Cardinality({j \in 1..(i - 1) : t[j] = "\""}) % 2 = 0

\* the positions of the separator c that are outside quotes
Cuts(t, c) == {i \in 1..Len(t) : t[i] = c /\ OutsideQuotes(t, i)}

RECURSIVE Ascending(_)
Ascending(S) ==
    IF S = {} THEN <<>>
    ELSE LET m == CHOOSE x \in S : \A y \in S : x <= y
         IN  <<m>> \o Ascending(S \ {m})

\* the pieces of t between the cut positions
Split(t, cuts) ==
    LET b == <<0>> \o Ascending(cuts) \o <<Len(t) + 1>>
    IN  [i \in 1..(Len(b) - 1) |-> SubSeq(t, b[i] + 1, b[i + 1] - 1)]

\* a doubled quote inside a quoted field stands for one quote
RECURSIVE Undouble(_)
Undouble(t) ==
    IF Len(t) = 0 THEN <<>>
    ELSE IF Len(t) >= 2 /\ t[1] = "\"" /\ t[2] = "\"" THEN <<"\"">> \o Undouble(SubSeq(t, 3, Len(t)))
    ELSE <<t[1]>> \o Undouble(Tail(t))

Unquote(f) ==
    IF Len(f) >= 2 /\ f[1] = "\"" /\ f[Len(f)] = "\""
    THEN Undouble(SubSeq(f, 2, Len(f) - 1))
    ELSE f

\* the lines of a text: a line break outside quotes ends a line, and a final
\* line break ends the text
LinesOf(t) ==
    LET pieces == Split(t, Cuts(t, "\n"))
    IN  IF pieces[Len(pieces)] = <<>> THEN SubSeq(pieces, 1, Len(pieces) - 1) ELSE pieces

\* the records of a delimited text, each the sequence of its field values
ParseCsv(t) ==
    [r \in 1..Len(LinesOf(t)) |->
        LET fields == Split(LinesOf(t)[r], Cuts(LinesOf(t)[r], ","))
        IN  [j \in 1..Len(fields) |-> Unquote(fields[j])]]

\* the text of a row's value for a header: the value's text, and empty text
\* when the row has no such column
CellText(row, h) ==
    LET v == Get(Obj(row), h)
    IN  CASE v.k = "string" -> v.s
          [] v.k = "number" -> NumToText(v.n)
          [] v.k = "undefined" -> <<>>
          [] OTHER -> JSONStringify(v)

\* the records a table stands for: the header list, then the cells of each row
TableRecords(rows, headers) ==
    <<headers>> \o [i \in 1..Len(rows) |-> [j \in 1..Len(headers) |-> CellText(rows[i], headers[j])]]

SpecialChars == {",", "\"", "\\", "\n"}

IsPlainText(t) == \A i \in 1..Len(t) : t[i] \notin SpecialChars

\* a table whose header names and cells hold no delimiter, quote, backslash or
\* line break
IsPlainTable(rows, headers) ==
    \A r \in 1..Len(TableRecords(rows, headers)) :
        \A j \in 1..Len(headers) : IsPlainText(TableRecords(rows, headers)[r][j])

\* what the serializer is to return for a table
SerializerLaw(rows, headers, text) ==
    /\ Len(rows) = 0 => text = <<>>
    /\ (Len(rows) > 0 /\ Len(headers) > 0 /\ IsPlainTable(rows, headers)) =>
          ParseCsv(text) = TableRecords(rows, headers)

\* the handler has called generateCsv
CsvGenerated == pc \in {"respond"} \/ (pc = "done" /\ response.status = 200)

ModuleRows == [i \in 1..Len(modules) |-> ModuleProps(modules[i])]

C13_GenerateCsvOutput ==
    CsvGenerated =>
        /\ SerializerLaw(ModuleRows, MODULE_FIELDS, modulesCsv)
        /\ SerializerLaw(conditions, conditionHeaders, conditionsCsv)


\* serializing a non-empty table and reading the text back gives the header
\* list and the cell texts
RoundTrip(rows, headers, text) ==
    (Len(rows) > 0 /\ Len(headers) > 0) => ParseCsv(text) = TableRecords(rows, headers)

C14_GenerateCsvRoundTrip ==
    CsvGenerated =>
        /\ RoundTrip(ModuleRows, MODULE_FIELDS, modulesCsv)
        /\ RoundTrip(conditions, conditionHeaders, conditionsCsv)

\* a table with special characters has been serialized by generateCsv
C14_SpecialTableGenerated ==
    /\ CsvGenerated
    /\ Len(conditions) > 0
    /\ Len(conditionHeaders) > 0
    /\ ~IsPlainTable(conditions, conditionHeaders)

-----------------------------------------------------------------------------
(* Calls of the handler compared *)

SameUpload(c1, c2) == calls[c1].file = calls[c2].file /\ calls[c1].doc = calls[c2].doc

BothDone(c1, c2) == calls[c1].pc = "done" /\ calls[c2].pc = "done"

\* C15: the output of an extraction is a function of the document alone: two
\* extractions of the same document give identical modules, conditions, header
\* list and glossary, however the two calls interleave; no call reads what
\* another wrote and no call changes the document it reads.
C15_OutputIsAFunctionOfTheDocument ==
    \A c1, c2 \in CallIds :
        (BothDone(c1, c2) /\ SameUpload(c1, c2)) => calls[c1].response = calls[c2].response

\* in one runtime two calls on the same document do agree
C15_SameRuntimeSameOutput ==
    \A c1, c2 \in CallIds :
        (BothDone(c1, c2) /\ SameUpload(c1, c2) /\ calls[c1].locale = calls[c2].locale) =>
            calls[c1].response = calls[c2].response

\* the step-by-step handler and its one-step form agree
HandlerResultAgrees == pc = "done" => response = HandlerResult(file, doc, locale)

-----------------------------------------------------------------------------
(* Claims about the columns and cells of a condition row *)

\* the text a value is flattened to: compact JSON for a mapping or a sequence,
\* the standard text of a number or a boolean, a text itself, 'null' for null
FlatText(v) ==
    CASE v.k \in {"object", "array"} -> JSONStringify(v)
      [] v.k = "number" -> NumToText(v.n)
      [] v.k = "boolean" -> IF v.b THEN <<"t","r","u","e">> ELSE <<"f","a","l","s","e">>
      [] v.k = "string" -> v.s
      [] v.k = "null" -> <<"n","u","l","l">>
      [] OTHER -> <<"u","n","d","e","f","i","n","e","d">>

BranchKeys == {K_ifTrueConfigs, K_ifFalseConfigs}

ColumnName(outerKey, nestedKey) == outerKey \o <<"_">> \o nestedKey

\* C16: in a condition_ entry, ifTrueConfigs or ifFalseConfigs is expanded into
\* columns '{outerKey}_{nestedKey}', with no column named outerKey, only when
\* its value is a non-null mapping; for any other value of that key (null, a
\* scalar, a sequence) and for any other key the row gets exactly one column
\* named the key, holding the flattened value.
C16_OnlyMappingsAreExpanded ==
    ConditionsReturned =>
        LET ms == ConditionMembers(SourceConditions)
        IN  /\ Len(conditions) = Len(ms)
            /\ \A i \in 1..Len(ms) :
                  ms[i].val.k = "object" =>
                      \A j \in 1..Len(ms[i].val.e) :
                          LET m == ms[i].val.e[j]
                              row == conditions[i]
                          IN  IF m.key \in BranchKeys /\ m.val.k = "object"
                              THEN /\ \A n \in 1..Len(m.val.e) :
                                         ColumnName(m.key, m.val.e[n].key) \in Columns(row)
                                   /\ m.key \notin Columns(row)
                              ELSE /\ m.key \in Columns(row)
                                   /\ Cell(row, m.key) = Str(FlatText(m.val))

\* the source values a column of the row built from entry can come from: a
\* member of the entry with that name, or a value one level inside a branch
\* config whose expanded name it is
SourceValues(entry, col) ==
    LET es == ObjectEntries(entry)
    IN  {es[j].val : j \in {jj \in 1..Len(es) : ~IsBranchConfig(es[jj]) /\ es[jj].key = col}}
        \cup UNION {{es[j].val.e[n].val :
                        n \in {nn \in 1..Len(es[j].val.e) :
                                  ColumnName(es[j].key, es[j].val.e[nn].key) = col}} :
                    j \in {jj \in 1..Len(es) : IsBranchConfig(es[jj])}}

\* C17: every cell extractConditions writes in a column other than conditionId
\* is flatten of a source value: compact JSON text for a mapping or a sequence,
\* the standard text of a number or boolean, a text itself, 'null' for null;
\* and a branch config is flattened one level only, a mapping nested inside it
\* becoming one JSON-text cell and no further column.
C17_CellsAreFlattenedValues ==
    ConditionsReturned =>
        LET ms == ConditionMembers(SourceConditions)
        IN  /\ Len(conditions) = Len(ms)
            /\ \A i \in 1..Len(ms) :
                  \A col \in Columns(conditions[i]) \ {K_conditionId} :
                      \E v \in SourceValues(ms[i].val, col) :
                          Cell(conditions[i], col) = Str(FlatText(v))

\* a row with a JSON-text cell for a mapping nested in a branch config and a
\* 'null' cell
C17_Witness ==
    /\ pc = "done"
    /\ ConditionsReturned
    /\ \E i \in 1..Len(conditions) :
          /\ ColumnName(K_ifFalseConfigs, T_foo) \in Columns(conditions[i])
          /\ Cell(conditions[i], ColumnName(K_ifFalseConfigs, T_foo))
                = Str(<<"{", "\"", "b", "a", "z", "\"", ":", "1", "}">>)
          /\ ColumnName(K_ifTrueConfigs, T_bar) \in Columns(conditions[i])
          /\ Cell(conditions[i], ColumnName(K_ifTrueConfigs, T_bar)) = Str(<<"n","u","l","l">>)
          /\ ColumnName(K_ifFalseConfigs, ColumnName(T_foo, T_baz)) \notin Columns(conditions[i])

-----------------------------------------------------------------------------
(* Which payload the glossary is built from *)

\* the keys collectSdkKeys records for a payload: inside a mapping or a
\* sequence, every key whose value is not itself a mapping or a sequence
RECURSIVE CollectedKeys(_)
CollectedKeys(v) ==
    IF v.k \in {"object", "array"}
    THEN UNION {IF v.e[i].val.k \in {"object", "array"}
                THEN CollectedKeys(v.e[i].val)
                ELSE {v.e[i].key} : i \in 1..Len(v.e)}
    ELSE {}

GlossaryKeys == {sdkMap[i].key : i \in 1..Len(sdkMap)}

\* null, false, 0 and the empty text, and a key that is not there
IsFalsy(v) ==
    \/ v.k \in {"null", "undefined"}
    \/ v.k = "boolean" /\ ~v.b
    \/ v.k = "number" /\ v.n = 0
    \/ v.k = "string" /\ v.s = <<>>

\* C18 as stated: the glossary is built from sdkResponse whenever the document
\* has that key, and from sdkResponses only when sdkResponse is absent; when
\* sdkResponse is present, sdkResponses contributes nothing.
C18_SdkResponseWheneverPresent ==
    SdkCollected =>
        GlossaryKeys = CollectedKeys(IF HasTopKey(K_sdkResponse)
                                     THEN Get(doc, K_sdkResponse)
                                     ELSE Get(doc, K_sdkResponses))

\* C18: the glossary is built from sdkResponse whenever its value is a mapping,
\* a sequence, a non-empty text, a non-zero number or true, an empty mapping
\* included, and sdkResponses then contributes nothing; it is built from
\* sdkResponses when sdkResponse is absent or is null, false, 0 or ''.
C18_SdkResponseWheneverTruthy ==
    SdkCollected =>
        GlossaryKeys = CollectedKeys(IF ~IsFalsy(Get(doc, K_sdkResponse))
                                     THEN Get(doc, K_sdkResponse)
                                     ELSE Get(doc, K_sdkResponses))

\* both keys present: an empty sdkResponse mapping that silences sdkResponses,
\* or a null, 0 or '' sdkResponse that lets sdkResponses through
C18_Witness ==
    /\ pc = "done"
    /\ response.status = 200
    /\ HasTopKey(K_sdkResponse)
    /\ HasTopKey(K_sdkResponses)
    /\ CollectedKeys(Get(doc, K_sdkResponses)) # {}
    /\ \/ Get(doc, K_sdkResponse) = Obj(<<>>) /\ sdkMap = <<>>
       \/ IsFalsy(Get(doc, K_sdkResponse)) /\ sdkMap # <<>>

-----------------------------------------------------------------------------
(* humanizeKey as three steps *)

Capital(c) ==
    CASE c = "a" -> "A"
      [] c = "b" -> "B"
      [] OTHER -> c

\* position i of the key is a lower-case letter and the next one a capital
IsBoundary(key, i) ==
    /\ i < Len(key)
    /\ key[i] \in {"a", "b"}
    /\ key[i + 1] \in {"B", "C"}

\* the key with one space put after every boundary position
RECURSIVE SpacedFrom(_, _)
SpacedFrom(key, i) ==
    IF i > Len(key) THEN <<>>
    ELSE (IF IsBoundary(key, i) THEN <<key[i], " ">> ELSE <<key[i]>>)
         \o SpacedFrom(key, i + 1)

ThreeSteps(key) ==
    LET spaced == SpacedFrom(key, 1)
        plain  == [i \in 1..Len(spaced) |-> IF spaced[i] = "_" THEN " " ELSE spaced[i]]
    IN  [i \in 1..Len(plain) |-> IF i = 1 THEN Capital(plain[1]) ELSE plain[i]]

\* C19: humanizeKey(key) is the key with a space put between each lower-case
\* letter and the capital right after it, then every underscore turned into a
\* space, then its first character in upper case and the rest as it was; and
\* humanizeKey of that result is the result itself.
C19_HumanizeIsThreeSteps ==
    /\ Len(humanized) >= 1 => humanized[1] = ThreeSteps(keyText)
    /\ Len(humanized) = 2 => humanized[2] = humanized[1]

\* 'aBC' became 'A BC', split at the first capital only, and stayed so
C19_Witness ==
    /\ keyText = <<"a", "B", "C">>
    /\ humanized = <<<<"A", " ", "B", "C">>, <<"A", " ", "B", "C">>>>

-----------------------------------------------------------------------------
(* The page's loading flag, error and data around a request *)

RequestStarts == Len(requests') > Len(requests)
RequestEnds == Len(requests') < Len(requests)

\* C20: in the page component, every call of processFiles or handleSubmit that
\* started a request ends with loading false, whether the request succeeded,
\* was answered with a non-OK response or threw; loading is true only while a
\* request is under way; the error is cleared when a request starts; and a new
\* selection of files leaves no error and no shown data behind.
C20_LoadingBracketsTheRequest ==
    /\ [](page.loading => requests # <<>>)
    /\ [][RequestEnds => ~page'.loading]_vars
    /\ [][RequestStarts => page'.loading /\ page'.error = <<>>]_vars
    /\ [][page'.files # page.files => page'.error = <<>> /\ page'.data = NoResponse]_vars

\* a request that was answered with a non-OK response is over: its message is
\* shown and loading is false again
C20_Witness ==
    /\ page.component = "dropzone"
    /\ requests = <<>>
    /\ pc = "done"
    /\ response.status # 200
    /\ page.error # <<>>
    /\ page.error = response.error
    /\ ~page.loading

-----------------------------------------------------------------------------
(* How often the recursive extractors are called *)

NoRepeat(seq) == \A i, j \in 1..Len(seq) : i # j => seq[i] # seq[j]

\* the mappings and sequences of a value, each named by its path
ContainerPaths(v) == {p \in Paths(v) : NodeAt(v, p).k \in {"object", "array"}}

\* the value the glossary is built from, as C18 has it
GlossaryPayload ==
    IF ~IsFalsy(Get(data, K_sdkResponse)) THEN Get(data, K_sdkResponse)
    ELSE Get(data, K_sdkResponses)

\* C21: on every finite document extractModules and collectSdkKeys run to their
\* end and visit each node they descend into exactly once: extractModules is
\* called once on every node of the document, so as many times as the document
\* has nodes, and collectSdkKeys once on every non-null mapping or sequence of
\* the payload.
C21_EveryNodeVisitedOnce ==
    /\ ModulesExtracted =>
           /\ NoRepeat(moduleCalls)
           /\ SeqSet(moduleCalls) = Paths(data)
           /\ Len(moduleCalls) = Cardinality(Paths(data))
    /\ SdkCollected =>
           /\ NoRepeat(sdkCalls)
           /\ SeqSet(sdkCalls) = ContainerPaths(GlossaryPayload)

\* what holds instead: on the documents the call stack holds extractModules is
\* called once on every node, and collectSdkKeys once on the payload, whatever
\* it is, and once on every mapping or sequence inside it
C21_WithinTheStack ==
    Depth(data) < StackLimit =>
        /\ ModulesExtracted =>
               /\ NoRepeat(moduleCalls)
               /\ SeqSet(moduleCalls) = Paths(data)
        /\ SdkCollected =>
               /\ NoRepeat(sdkCalls)
               /\ SeqSet(sdkCalls) = ContainerPaths(GlossaryPayload)
                                       \cup (IF IsFalsy(GlossaryPayload) THEN {} ELSE {<<>>})

\* beyond the stack the calls stop short of the document's nodes
C21_CallsStopAtTheStack ==
    (ModulesExtracted /\ Depth(data) >= StackLimit) =>
        /\ pc \in {"catch", "done"}
        /\ Len(moduleCalls) < Cardinality(Paths(data))

=============================================================================
